---- MODULE Spec2Model ----
(***************************************************************************)
(* FastTurtle: the differential-drive robot (TurtlebotBurger) and its      *)
(* rangefinder (Lidar), src/src/robot.cpp.                                 *)
(*                                                                         *)
(* Numbers.  Every `float' of the source is a binary floating-point value  *)
(* m * 2^e, written <<m, e>> with m odd (zero is <<0, 0>>), rounded to     *)
(* nearest-even after each float operation.  The significand has MantBits  *)
(* bits instead of the 24 of an IEEE single; the exponent is unbounded, so *)
(* neither overflow nor underflow is modelled.  Infinity and NaN are       *)
(* <<1, InfE>>, <<-1, InfE>> and <<0, InfE>>.  A `double' intermediate is  *)
(* the exact dyadic value (53 bits against 24: the later rounding to float *)
(* is the only one that shows).                                            *)
(*                                                                         *)
(* Angles are in degrees: theta, w and the ray angles are degrees, TO_RAD  *)
(* is absorbed in Cos/Sin, and the canonical heading range (-pi, pi] is    *)
(* (-180, 180].  cos and sin are a table with one entry per whole degree.  *)
(***************************************************************************)
EXTENDS Integers, Sequences, FiniteSets, TLC

(* ------------------------------ bounds -------------------------------- *)

\* bits of a float's significand (24 in the source's float)
MantBits == 10

\* move() calls in one behaviour
MaxMoves == 2

(* --------------------------- floating point --------------------------- *)

InfE == 1000000

NaN == <<0, InfE>>

PInf == <<1, InfE>>

NInf == <<-1, InfE>>

IsNaN(a) == a = NaN

IsInf(a) == a[2] = InfE /\ a[1] # 0

IsFin(a) == a[2] # InfE

Abs(n) == IF n < 0 THEN -n ELSE n

Sgn(n) == IF n < 0 THEN -1 ELSE IF n = 0 THEN 0 ELSE 1

Min(a, b) == IF a <= b THEN a ELSE b

Max(a, b) == IF a >= b THEN a ELSE b

RECURSIVE BitLen(_)
BitLen(n) == IF n = 0 THEN 0 ELSE 1 + BitLen(n \div 2)

\* the canonical pair of m * 2^e
RECURSIVE Canon(_, _)
Canon(m, e) ==
    IF m = 0 THEN <<0, 0>>
    ELSE IF m % 2 = 0 THEN Canon(m \div 2, e + 1)
    ELSE <<m, e>>

\* m * 2^e rounded to p significant bits, ties to even
RoundTo(m, e, p) ==
    LET n == Abs(m)
        s == BitLen(n) - p
    IN  IF s <= 0 THEN Canon(m, e)
        ELSE LET q  == n \div (2 ^ s)
                 r  == n % (2 ^ s)
                 h  == 2 ^ (s - 1)
                 up == r > h \/ (r = h /\ q % 2 = 1)
             IN  Canon(Sgn(m) * (IF up THEN q + 1 ELSE q), e + s)

\* conversion of a double (exact) value to float
Fl(a) == IF IsFin(a) THEN RoundTo(a[1], a[2], MantBits) ELSE a

OfInt(n) == Canon(n, 0)

Zero == <<0, 0>>

One == <<1, 0>>

Two == <<1, 1>>

Half == <<1, -1>>

Neg(a) == <<-a[1], a[2]>>

\* exact sum, product of finite values
EAdd(a, b) ==
    IF a[1] = 0 THEN b
    ELSE IF b[1] = 0 THEN a
    ELSE LET e == Min(a[2], b[2])
         IN  Canon(a[1] * 2 ^ (a[2] - e) + b[1] * 2 ^ (b[2] - e), e)

EMul(a, b) == Canon(a[1] * b[1], a[2] + b[2])

\* double arithmetic: exact on finite values, IEEE rules on the others
DAdd(a, b) ==
    IF IsNaN(a) \/ IsNaN(b) THEN NaN
    ELSE IF IsInf(a) THEN (IF IsInf(b) /\ a # b THEN NaN ELSE a)
    ELSE IF IsInf(b) THEN b
    ELSE EAdd(a, b)

DMul(a, b) ==
    IF IsNaN(a) \/ IsNaN(b) THEN NaN
    ELSE IF IsInf(a) \/ IsInf(b)
         THEN (IF a[1] = 0 \/ b[1] = 0 THEN NaN
               ELSE <<Sgn(a[1]) * Sgn(b[1]), InfE>>)
    ELSE EMul(a, b)

\* float arithmetic: the exact result rounded to MantBits bits
FAdd(a, b) == Fl(DAdd(a, b))

FSub(a, b) == Fl(DAdd(a, Neg(b)))

FMul(a, b) == Fl(DMul(a, b))

\* the quotient of two finite non-zero values, correctly rounded: the
\* integer quotient carries MantBits + 2 bits and a sticky bit
RoundQuot(a, b) ==
    LET n  == Abs(a[1])
        d  == Abs(b[1])
        k  == Max(0, MantBits + 2 + BitLen(d) - BitLen(n))
        nn == n * 2 ^ k
        q  == nn \div d
        m2 == IF nn % d = 0 THEN 2 * q ELSE 2 * q + 1
    IN  RoundTo(Sgn(a[1]) * Sgn(b[1]) * m2, a[2] - b[2] - k - 1, MantBits)

FDiv(a, b) ==
    IF IsNaN(a) \/ IsNaN(b) THEN NaN
    ELSE IF IsInf(a) THEN (IF IsInf(b) THEN NaN
                           ELSE <<a[1] * (IF b[1] < 0 THEN -1 ELSE 1), InfE>>)
    ELSE IF IsInf(b) THEN Zero
    ELSE IF b[1] = 0 THEN (IF a[1] = 0 THEN NaN ELSE <<Sgn(a[1]), InfE>>)
    ELSE IF a[1] = 0 THEN Zero
    ELSE RoundQuot(a, b)

\* comparisons; every comparison with a NaN is false
FLe(a, b) ==
    IF IsNaN(a) \/ IsNaN(b) THEN FALSE
    ELSE IF a = b THEN TRUE
    ELSE IF IsInf(a) THEN a[1] < 0
    ELSE IF IsInf(b) THEN b[1] > 0
    ELSE EAdd(a, Neg(b))[1] <= 0

FLt(a, b) == FLe(a, b) /\ a # b

\* the nearest whole number of a finite value (halves go up)
RoundInt(a) ==
    IF a[2] >= 0 THEN a[1] * 2 ^ a[2]
    ELSE (a[1] + 2 ^ (-a[2] - 1)) \div (2 ^ (-a[2]))

(* ------------------------------ cos, sin ------------------------------ *)

\* cos of 0, 1 .. 90 degrees, to 8 binary places
QCos ==
  << <<1,0>>, <<1,0>>, <<1,0>>, <<1,0>>, <<255,-8>>, <<255,-8>>, <<255,-8>>,
     <<127,-7>>, <<127,-7>>, <<253,-8>>, <<63,-6>>, <<251,-8>>, <<125,-7>>, <<249,-8>>,
     <<31,-5>>, <<247,-8>>, <<123,-7>>, <<245,-8>>, <<243,-8>>, <<121,-7>>, <<241,-8>>,
     <<239,-8>>, <<237,-8>>, <<59,-6>>, <<117,-7>>, <<29,-5>>, <<115,-7>>, <<57,-6>>,
     <<113,-7>>, <<7,-3>>, <<111,-7>>, <<219,-8>>, <<217,-8>>, <<215,-8>>, <<53,-6>>,
     <<105,-7>>, <<207,-8>>, <<51,-6>>, <<101,-7>>, <<199,-8>>, <<49,-6>>, <<193,-8>>,
     <<95,-7>>, <<187,-8>>, <<23,-5>>, <<181,-8>>, <<89,-7>>, <<175,-8>>, <<171,-8>>,
     <<21,-5>>, <<165,-8>>, <<161,-8>>, <<79,-7>>, <<77,-7>>, <<75,-7>>, <<147,-8>>,
     <<143,-8>>, <<139,-8>>, <<17,-5>>, <<33,-6>>, <<1,-1>>, <<31,-6>>, <<15,-5>>,
     <<29,-6>>, <<7,-4>>, <<27,-6>>, <<13,-5>>, <<25,-6>>, <<3,-3>>, <<23,-6>>,
     <<11,-5>>, <<83,-8>>, <<79,-8>>, <<75,-8>>, <<71,-8>>, <<33,-7>>, <<31,-7>>,
     <<29,-7>>, <<53,-8>>, <<49,-8>>, <<11,-6>>, <<5,-5>>, <<9,-6>>, <<31,-8>>,
     <<27,-8>>, <<11,-7>>, <<9,-7>>, <<13,-8>>, <<9,-8>>, <<1,-6>>, <<0,0>> >>

\* cos of d degrees, d in 0 .. 359
CosDeg(d) ==
    IF d <= 90 THEN QCos[d + 1]
    ELSE IF d <= 180 THEN Neg(QCos[180 - d + 1])
    ELSE IF d <= 270 THEN Neg(QCos[d - 180 + 1])
    ELSE QCos[360 - d + 1]

\* cos, sin of an angle (a double, in degrees)
Cos(a) == IF IsFin(a) THEN CosDeg(RoundInt(a) % 360) ELSE NaN

Sin(a) == IF IsFin(a) THEN CosDeg((RoundInt(a) + 270) % 360) ELSE NaN

(* ------------------- constants of robot.h, utils.h -------------------- *)

\* number of rays of the lidar; a ray's index is its angle in degrees
N_LASERS == 360

\* sensing range of a ray: 0.125 and 3.5
MIN_DISTANCE == <<1, -3>>

MAX_DISTANCE == <<7, -1>>

\* the rays update_lidar_heavy goes through: for (ray = 45; ray < 46; ray++)
RayBegin == 45

RayEnd == 46

\* binary places of the grid the geometry is computed on
GridBits == 6

\* the angle a brought into (-180, 180] by whole turns
RECURSIVE normalize_angle(_)
normalize_angle(a) ==
    IF ~IsFin(a) THEN NaN
    ELSE IF FLt(OfInt(180), a) THEN normalize_angle(FSub(a, OfInt(360)))
    ELSE IF FLe(a, OfInt(-180)) THEN normalize_angle(FAdd(a, OfInt(360)))
    ELSE a

(* ------------------------------- inputs ------------------------------- *)

\* 0.105, the radius of a Turtlebot3 burger, as a float
Radius105 == FDiv(OfInt(21), OfInt(200))

\* the first power of two whose float neighbours are two apart
BigCoord == <<1, MantBits>>

Xs == {Zero, BigCoord}

Ys == {Zero}

\* one heading inside (-180, 180] and one outside
Thetas == {OfInt(45), OfInt(270)}

Radii == {Half, Radius105, Zero}

Dts == {One, Two, Zero}

\* the values the uninitialised `frequency' of the constructor may hold
Frequencies == {Zero, One}

\* the commands <<v, w>> of move(v, w)
Commands == { <<Zero, Zero>>, <<One, Zero>>, <<Zero, OfInt(90)>>,
              <<One, OfInt(-450)>> }

\* round obstacles of radius 0.25 on the y axis: for a robot at the origin
\* heading 45 degrees, two on ray 45 (one and two units away) and one on
\* its line behind the robot
Circle(x, y, r) == [xc |-> x, yc |-> y, radius |-> r]

ObsNear == Circle(Zero, One, <<1, -2>>)

ObsFar == Circle(Zero, Two, <<1, -2>>)

ObsBehind == Circle(Zero, OfInt(-1), <<1, -2>>)

\* a wall edge across the x axis, two units from the origin
Line(x1, y1, x2, y2) == [x1 |-> x1, y1 |-> y1, x2 |-> x2, y2 |-> y2]

WallAhead == Line(Two, OfInt(-1), Two, OfInt(3))

\* the arguments of update_lidar_heavy
Worlds == { [rounds |-> <<>>, edges |-> <<>>],
            [rounds |-> <<ObsNear, ObsFar>>, edges |-> <<>>],
            [rounds |-> <<ObsFar, ObsBehind, ObsNear>>,
             edges |-> <<WallAhead>>] }

(* ------------------------------- state -------------------------------- *)

VARIABLES
    xc, yc, radius,       \* Circle: centre and radius of the robot
    theta, dt,            \* heading, tick duration
    inv_diameter,         \* 1 / (2 * radius)
    diameter,             \* 2 * radius
    lidar,                \* the Lidar: frequency, position, lasers, range
    cmd,                  \* the last call: "new", "move" (with v, w), "sense"
    sense,                \* what the last update_lidar_heavy() did, while it
                          \* is the last call: the rays it went through, its
                          \* arguments, its calls of obstacle_in_sight and
                          \* its local `distance'
    run,                  \* the moves with w = 0 and one v made in a row
    moves                 \* number of move() calls so far

vars == <<xc, yc, radius, theta, dt, inv_diameter, diameter, lidar,
          cmd, sense, run, moves>>

\* Lidar::Lidar with the readings left at zero
NewLidarZeroed(frequency, position) ==
    [frequency    |-> frequency,
     position     |-> position,
     lasers       |-> [i \in 0 .. N_LASERS - 1 |-> Zero],
     min_distance |-> Fl(MIN_DISTANCE),
     max_distance |-> Fl(MAX_DISTANCE)]

\* Lidar::Lidar
NewLidar(frequency, position) ==
    [frequency    |-> frequency,
     position     |-> position,
     lasers       |-> [i \in 0 .. N_LASERS - 1 |-> Fl(MAX_DISTANCE)],
     min_distance |-> Fl(MIN_DISTANCE),
     max_distance |-> Fl(MAX_DISTANCE)]

\* the value of a local that was never assigned
Unset == <<>>

NoSense == [rays |-> {}, rounds |-> <<>>, edges |-> <<>>, laser |-> <<>>,
            log |-> <<>>, distance |-> Unset]

NoRun == [x0 |-> Zero, y0 |-> Zero, th0 |-> Zero, v |-> Zero, k |-> 0]

\* TurtlebotBurger::TurtlebotBurger
Init ==
    \E x \in Xs, y \in Ys, th \in Thetas, r \in Radii, d \in Dts,
       f \in Frequencies :
        /\ xc = x
        /\ yc = y
        /\ radius = r
        /\ dt = d
        /\ theta = th
        /\ inv_diameter = FDiv(One, FMul(Two, r))
        /\ diameter = Fl(DMul(r, Two))
        /\ lidar = NewLidar(f, <<x, y>>)
        /\ cmd = [op |-> "new", v |-> Zero, w |-> Zero]
        /\ sense = NoSense
        /\ run = NoRun
        /\ moves = 0

(* ----------------------------- kinematics ----------------------------- *)

\* the locals of TurtlebotBurger::kinematics
v_left(v, w) == FAdd(v, FMul(w, radius))

v_right(v, w) == FSub(v, FMul(w, radius))

dd(v, w) == Fl(DMul(DAdd(v_left(v, w), v_right(v, w)), Half))

dth(v, w) == FMul(FSub(v_left(v, w), v_right(v, w)), inv_diameter)

\* kinematics with the heading advanced by dth, not by dth * dt
kinematics_without_dt(v, w) ==
    LET mid == DAdd(theta, DMul(dth(v, w), Half))
    IN  << Fl(DAdd(xc, DMul(DMul(dd(v, w), Cos(mid)), dt))),
           Fl(DAdd(yc, DMul(DMul(dd(v, w), Sin(mid)), dt))),
           normalize_angle(FAdd(theta, dth(v, w))) >>

\* kinematics with the sum of the wheel speeds, not their mean, as dd
kinematics_without_half(v, w) ==
    LET mid == DAdd(theta, DMul(dth(v, w), Half))
        sum == Fl(DAdd(v_left(v, w), v_right(v, w)))
    IN  << Fl(DAdd(xc, DMul(DMul(sum, Cos(mid)), dt))),
           Fl(DAdd(yc, DMul(DMul(sum, Sin(mid)), dt))),
           normalize_angle(FAdd(theta, FMul(dth(v, w), dt))) >>

\* TurtlebotBurger::kinematics: the pose after one tick with command (v, w)
kinematics(v, w) ==
    LET mid == DAdd(theta, DMul(dth(v, w), Half))
    IN  << Fl(DAdd(xc, DMul(DMul(dd(v, w), Cos(mid)), dt))),
           Fl(DAdd(yc, DMul(DMul(dd(v, w), Sin(mid)), dt))),
           normalize_angle(FAdd(theta, FMul(dth(v, w), dt))) >>

\* the straight run after move(v, w): it grows by one when w is 0 and v is
\* the run's, starts at the pose before the call when w is 0, and ends else
NextRun(v, w) ==
    IF w # Zero THEN NoRun
    ELSE IF run.k > 0 /\ run.v = v THEN [run EXCEPT !.k = @ + 1]
    ELSE [x0 |-> xc, y0 |-> yc, th0 |-> theta, v |-> v, k |-> 1]

\* TurtlebotBurger::move
move(v, w) ==
    LET new_pose == kinematics(v, w)
    IN  /\ moves < MaxMoves
        /\ xc' = new_pose[1]
        /\ yc' = new_pose[2]
        /\ theta' = new_pose[3]
        /\ cmd' = [op |-> "move", v |-> v, w |-> w]
        /\ sense' = NoSense
        /\ run' = NextRun(v, w)
        /\ moves' = moves + 1
        /\ UNCHANGED <<radius, dt, inv_diameter, diameter, lidar>>

(* ------------------ geometry of geometry.h, utils.h ------------------- *)
(* Points are taken to a grid of 2^-GridBits and the intersection is found *)
(* in whole numbers of grid steps.                                         *)

ToFix(a) == RoundInt(<<a[1], a[2] + GridBits>>)

FromFix(n) == Fl(Canon(n, -GridBits))

\* n / d to the nearest whole number, d > 0
DivR(n, d) == IF n >= 0 THEN (2 * n + d) \div (2 * d)
              ELSE -((2 * (-n) + d) \div (2 * d))

RECURSIVE SqrtBetween(_, _, _)
SqrtBetween(n, lo, hi) ==
    IF lo >= hi THEN lo
    ELSE LET mid == (lo + hi + 1) \div 2
         IN  IF mid * mid <= n THEN SqrtBetween(n, mid, hi)
             ELSE SqrtBetween(n, lo, mid - 1)

\* the whole part of the square root of n
ISqrt(n) == SqrtBetween(n, 0, Min(n, 46340))

\* the length of (dx, dy); long vectors are halved first
RECURSIVE Hypot(_, _)
Hypot(dx, dy) ==
    IF Max(Abs(dx), Abs(dy)) >= 2 ^ 14
    THEN 2 * Hypot(DivR(dx, 2), DivR(dy, 2))
    ELSE ISqrt(dx * dx + dy * dy)

\* distance_between_points (utils.h)
distance_between_points(x1, y1, x2, y2) ==
    IF IsFin(x1) /\ IsFin(y1) /\ IsFin(x2) /\ IsFin(y2)
    THEN FromFix(Hypot(ToFix(x1) - ToFix(x2), ToFix(y1) - ToFix(y2)))
    ELSE NaN

\* RoundObstacle::intersects_line: whether the line through the two points
\* of `laser' meets the circle ob, and the two points where it does,
\* the one nearer to the laser's first point first
intersects_line(laser, ob) ==
    LET fin == /\ \A i \in 1 .. 4 : IsFin(laser[i])
               /\ IsFin(ob.xc) /\ IsFin(ob.yc) /\ IsFin(ob.radius)
        nx  == ToFix(laser[1])
        ny  == ToFix(laser[2])
        dx  == ToFix(laser[3]) - nx
        dy  == ToFix(laser[4]) - ny
        len == Hypot(dx, dy)
        ux  == DivR(dx * 256, len)
        uy  == DivR(dy * 256, len)
        gx  == ToFix(ob.xc) - nx
        gy  == ToFix(ob.yc) - ny
        r   == ToFix(ob.radius)
        b   == DivR(gx * ux + gy * uy, 256)
        p   == DivR(gx * uy - gy * ux, 256)
        h   == ISqrt(r * r - p * p)
    IN  IF fin /\ len > 0 /\ Abs(p) <= r
        THEN << TRUE,
                FromFix(nx + DivR((b - h) * ux, 256)),
                FromFix(ny + DivR((b - h) * uy, 256)),
                FromFix(nx + DivR((b + h) * ux, 256)),
                FromFix(ny + DivR((b + h) * uy, 256)) >>
        ELSE <<FALSE, Zero, Zero, Zero, Zero>>

(* -------------------------------- lidar ------------------------------- *)

\* a bool where a float is expected: 1 or 0
BoolToFloat(b) == IF b THEN One ELSE Zero

\* Lidar::in_between: (xi <= xm <= xf) || (xf <= xm <= xi), where
\* a <= b <= c is (a <= b) <= c
in_between(xi, xm, xf) ==
    \/ FLe(BoolToFloat(FLe(xi, xm)), xf)
    \/ FLe(BoolToFloat(FLe(xf, xm)), xi)

\* Lidar::obstacle_in_sight
obstacle_in_sight(x_min, y_min, x_max, y_max, x_obs, y_obs) ==
    in_between(x_min, x_obs, x_max) /\ in_between(y_min, y_obs, y_max)

\* Lidar::get_laser_points: the near and the far point of the ray
get_laser_points(angle, x, y, th) ==
    LET angle_rad == angle
        cos_      == Fl(Cos(FAdd(angle_rad, th)))
        sin_      == Fl(Sin(FAdd(angle_rad, th)))
    IN  << FAdd(x, FMul(lidar.min_distance, cos_)),
           FAdd(y, FMul(lidar.min_distance, sin_)),
           FAdd(x, FMul(lidar.max_distance, cos_)),
           FAdd(y, FMul(lidar.max_distance, sin_)) >>

\* the loop over the round obstacles, from obstacle o on, for one ray
RECURSIVE ScanRounds(_, _, _, _, _)
ScanRounds(round_obstacles, o, ray, laser, st) ==
    IF o > Len(round_obstacles) THEN st
    ELSE
      LET intersection == intersects_line(laser, round_obstacles[o])
          in_sight == obstacle_in_sight(
                          intersection[2], intersection[3],
                          intersection[4], intersection[5],
                          round_obstacles[o].xc, round_obstacles[o].yc)
          call == [ray |-> ray, o |-> o,
                   x_min |-> intersection[2], y_min |-> intersection[3],
                   x_max |-> intersection[4], y_max |-> intersection[5],
                   x_obs |-> round_obstacles[o].xc,
                   y_obs |-> round_obstacles[o].yc,
                   in_sight |-> in_sight]
      IN  IF ~intersection[1]
          THEN ScanRounds(round_obstacles, o + 1, ray, laser, st)
          ELSE ScanRounds(round_obstacles, o + 1, ray, laser,
                 [st EXCEPT
                    !.log = Append(@, call),
                    !.distance =
                        IF in_sight
                        THEN distance_between_points(laser[1], laser[2],
                                                     Zero, Zero)
                        ELSE @])

\* the loop over the rays, from `ray' on: for (ray = 45; ray < 46; ray++)
RECURSIVE ScanRays(_, _, _)
ScanRays(round_obstacles, ray, st) ==
    IF ~(ray < RayEnd) THEN st
    ELSE LET laser == get_laser_points(OfInt(ray), xc, yc, theta)
         IN  ScanRays(round_obstacles, ray + 1,
                 ScanRounds(round_obstacles, 1, ray, laser,
                     [st EXCEPT !.rays = @ \cup {ray}, !.laser = laser]))

\* TurtlebotBurger::update_lidar_heavy: nothing of the robot or of the lidar
\* is assigned
update_lidar_heavy(round_obstacles, edges) ==
    LET st == ScanRays(round_obstacles, RayBegin,
                  [NoSense EXCEPT !.rounds = round_obstacles,
                                  !.edges = edges])
    IN  /\ sense' = st
        /\ cmd' = [op |-> "sense", v |-> Zero, w |-> Zero]
        /\ UNCHANGED <<xc, yc, radius, theta, dt, inv_diameter, diameter,
                       lidar, run, moves>>

Next ==
    \/ \E c \in Commands : move(c[1], c[2])
    \/ \E wd \in Worlds : update_lidar_heavy(wd.rounds, wd.edges)

Spec == Init /\ [][Next]_vars

(* ------------------------ what the claims use ------------------------- *)

Positive(a) == FLt(Zero, a)

\* the static parameters the data model asks for
ValidRobot ==
    /\ Positive(radius)
    /\ Positive(dt)
    /\ FLt(lidar.min_distance, lidar.max_distance)
    /\ N_LASERS > 0

PoseFinite == IsFin(xc) /\ IsFin(yc) /\ IsFin(theta)

AbsF(a) == <<Abs(a[1]), a[2]>>

\* a * 2^k
Scale(a, k) == IF a[1] = 0 THEN a ELSE <<a[1], a[2] + k>>

\* the gap between two neighbouring floats of the size of a (finite)
Ulp(a) == IF a[1] = 0 THEN Zero
          ELSE <<1, BitLen(Abs(a[1])) + a[2] - MantBits>>

FMax(a, b) == IF FLe(a, b) THEN b ELSE a

FMin(a, b) == IF FLe(a, b) THEN a ELSE b

\* min(a, b) <= m <= max(a, b)
Between(a, m, b) == FLe(FMin(a, b), m) /\ FLe(m, FMax(a, b))

\* a table value of cos or sin in 256ths
In256(c) == c[1] * 2 ^ (c[2] + 8)

\* the least element of a non-empty set of integers
Least(S) == CHOOSE t \in S : \A u \in S : t <= u

\* Distances along ray number `ray' from the robot's position, in grid
\* steps, at which the ray meets the circle ob between min_distance and
\* max_distance.  A circle out of reach is skipped before any product.
CircleHits(ray, ob) ==
    LET a    == RoundInt(FAdd(OfInt(ray), theta))
        ux   == In256(CosDeg(a % 360))
        uy   == In256(CosDeg((a + 270) % 360))
        gx   == ToFix(ob.xc) - ToFix(xc)
        gy   == ToFix(ob.yc) - ToFix(yc)
        r    == ToFix(ob.radius)
        far  == ToFix(lidar.max_distance)
        near == ToFix(lidar.min_distance)
        b    == DivR(gx * ux + gy * uy, 256)
        p    == DivR(gx * uy - gy * ux, 256)
        h    == ISqrt(r * r - p * p)
    IN  IF Abs(gx) > far + r \/ Abs(gy) > far + r \/ Abs(p) > r THEN {}
        ELSE {t \in {b - h, b + h} : near <= t /\ t <= far}

\* The same for the wall edge ed: the ray P + t u meets E1 + s (E2 - E1)
\* where t = (f x e) / (u x e) and s = (f x u) / (u x e), with f = E1 - P
\* and e = E2 - E1; the edge is met when 0 <= s <= 1.
EdgeHits(ray, ed) ==
    LET a    == RoundInt(FAdd(OfInt(ray), theta))
        ux   == In256(CosDeg(a % 360))
        uy   == In256(CosDeg((a + 270) % 360))
        fx   == ToFix(ed.x1) - ToFix(xc)
        fy   == ToFix(ed.y1) - ToFix(yc)
        ex   == ToFix(ed.x2) - ToFix(ed.x1)
        ey   == ToFix(ed.y2) - ToFix(ed.y1)
        far  == ToFix(lidar.max_distance)
        near == ToFix(lidar.min_distance)
        den  == ux * ey - uy * ex
        sn   == Sgn(den) * (fx * uy - fy * ux)
        t    == DivR(Sgn(den) * (fx * ey - fy * ex) * 256, Abs(den))
    IN  IF \/ Abs(fx) > far + Abs(ex) \/ Abs(fy) > far + Abs(ey)
           \/ den = 0 \/ sn < 0 \/ sn > Abs(den)
        THEN {}
        ELSE {u \in {t} : near <= u /\ u <= far}

\* the distance, in grid steps, from the robot's position to the nearest
\* intersection in sight of ray number `ray' over the obstacles of the last
\* sense cycle, and max_distance when there is none
TrueReading(ray) ==
    LET hits == UNION ( {CircleHits(ray, sense.rounds[o]) :
                            o \in 1 .. Len(sense.rounds)}
                        \cup {EdgeHits(ray, sense.edges[o]) :
                            o \in 1 .. Len(sense.edges)} )
    IN  IF hits = {} THEN ToFix(lidar.max_distance) ELSE Least(hits)

(* ------------------------------ the claims ---------------------------- *)

\* C1: after a sense cycle at a finite pose, the reading of every ray is the
\* distance from the robot to the nearest intersection in sight over all the
\* round obstacles and wall edges passed in (max_distance when there is
\* none), to within 1/16 of a unit.
C1_ReadingIsNearestHit ==
    (cmd.op = "sense" /\ ValidRobot /\ PoseFinite) =>
        \A ray \in 0 .. N_LASERS - 1 :
            Abs(ToFix(lidar.lasers[ray]) - TrueReading(ray)) <= 4

\* C2: when update_lidar_heavy has returned, it has gone through every ray
\* 0 .. N_LASERS - 1.
C2_FullSweep ==
    (cmd.op = "sense" /\ ValidRobot) => sense.rays = 0 .. N_LASERS - 1

\* C3: with radius > 0 and dt > 0, move(0, 0) leaves the pose as it was.
C3_ZeroCommandIdentity ==
    [][(cmd'.op = "move" /\ cmd'.v = Zero /\ cmd'.w = Zero
            /\ Positive(radius) /\ Positive(dt))
        => (xc' = xc /\ yc' = yc /\ theta' = theta)]_vars

\* C4: the lidar's stored position is the robot's position (xc, yc).
C4_LidarAtRobot ==
    ValidRobot => lidar.position = <<xc, yc>>

\* the claims about one move(v, w) of a robot with radius > 0 and dt > 0
Rotation ==
    /\ cmd'.op = "move" /\ cmd'.v = Zero /\ cmd'.w # Zero
    /\ Positive(radius) /\ Positive(dt) /\ PoseFinite

\* C5 as stated: move(0, w), w # 0, leaves x and y as they were, sets the
\* heading to normalize_angle(theta + w * dt), and the wheel speeds give
\* dth = w exactly.
C5_PureRotationExact ==
    [][Rotation =>
        /\ xc' = xc /\ yc' = yc
        /\ theta' = normalize_angle(FAdd(theta, FMul(cmd'.w, dt)))
        /\ dth(Zero, cmd'.w) = cmd'.w]_vars

\* C5 amended: move(0, w), w # 0, leaves x and y as they were and sets the
\* heading to normalize_angle(theta + dth * dt), where dth, the rate got
\* from the wheel speeds, is w to within 4 units of roundoff (|dth - w| <=
\* 2^(2 - MantBits) |w|) and is w exactly when the radius is a power of two.
C5_PureRotation ==
    [][Rotation =>
        /\ xc' = xc /\ yc' = yc
        /\ theta' = normalize_angle(FAdd(theta, FMul(dth(Zero, cmd'.w), dt)))
        /\ FLe(Scale(AbsF(EAdd(dth(Zero, cmd'.w), Neg(cmd'.w))), MantBits - 2),
               AbsF(cmd'.w))
        /\ (Abs(radius[1]) = 1 => dth(Zero, cmd'.w) = cmd'.w)]_vars

\* C5, reached: a rotation in place was made by a robot whose wheel speeds
\* do not give back w.
C5_Reached ==
    /\ cmd.op = "move" /\ cmd.v = Zero /\ cmd.w # Zero
    /\ Positive(radius) /\ Positive(dt) /\ PoseFinite
    /\ dth(Zero, cmd.w) # cmd.w

\* where a run of k straight moves would end without any rounding
RunEndX == EAdd(run.x0, EMul(EMul(EMul(OfInt(run.k), run.v), dt), Cos(run.th0)))

RunEndY == EAdd(run.y0, EMul(EMul(EMul(OfInt(run.k), run.v), dt), Sin(run.th0)))

StraightRun ==
    /\ run.k >= 1 /\ Positive(radius) /\ Positive(dt)
    /\ IsFin(run.x0) /\ IsFin(run.y0) /\ IsFin(run.th0)

C7_HeadingInRange ==
    moves >= 1 => (FLt(OfInt(-180), theta) /\ FLe(theta, OfInt(180)))

\* C8: move and the sense cycle only ever run on a robot with radius > 0
\* and dt > 0 and a lidar with min_distance < max_distance and a positive
\* number of rays.
C8_ParametersValidated ==
    cmd.op \in {"move", "sense"} => ValidRobot

\* C9: the lidar has N_LASERS readings, each within [min_distance,
\* max_distance], and each is max_distance right after construction.
C9_ReadingsInRange ==
    /\ DOMAIN lidar.lasers = 0 .. N_LASERS - 1
    /\ \A i \in 0 .. N_LASERS - 1 :
          /\ FLe(lidar.min_distance, lidar.lasers[i])
          /\ FLe(lidar.lasers[i], lidar.max_distance)
    /\ cmd.op = "new" =>
          \A i \in 0 .. N_LASERS - 1 : lidar.lasers[i] = lidar.max_distance

\* C9, reached: the robot has moved and a sense cycle has met an obstacle.
C9_Reached ==
    cmd.op = "sense" /\ moves >= 1 /\ ValidRobot /\ sense.log # <<>>

\* whether the point (x, y) lies between the near and the far point of the
\* ray of the last sense cycle on both axes
OnRay(x, y) ==
    /\ Between(sense.laser[1], x, sense.laser[3])
    /\ Between(sense.laser[2], y, sense.laser[4])

\* C10: in_between(xi, xm, xf) is min(xi, xf) <= xm <= max(xi, xf), and the
\* sense cycle takes an obstacle as in sight exactly when a point where the
\* ray's line meets it lies between the ray's near and far point on both
\* axes.
C10_InSightIsOnRay ==
    (cmd.op = "sense" /\ ValidRobot) =>
        \A i \in 1 .. Len(sense.log) :
            LET c == sense.log[i]
            IN  /\ in_between(c.x_min, c.x_obs, c.x_max)
                       = Between(c.x_min, c.x_obs, c.x_max)
                /\ in_between(c.y_min, c.y_obs, c.y_max)
                       = Between(c.y_min, c.y_obs, c.y_max)
                /\ c.in_sight = (\/ OnRay(c.x_min, c.y_min)
                                 \/ OnRay(c.x_max, c.y_max))

====
